---- MODULE Spec2Model ----
(***************************************************************************)
(* Real Estate Market Screener (src/app.js): the session state machine     *)
(* (load, filter, sort) and the composite-score breakdown.                 *)
(*                                                                         *)
(* Units: percentages and scores are kept in tenths (gross_yield = 72 is   *)
(* 7.2 %, composite_score = 625 is 62.5); prices are dollars; distances    *)
(* are miles.  A field that is null or undefined in the JSON record is a   *)
(* field that is not in the DOMAIN of the record.                          *)
(***************************************************************************)
EXTENDS Integers, Sequences, FiniteSets, TLC

VARIABLES
    pc,              \* "loading" until the DOMContentLoaded handler has run
    engine,          \* argument order the host's Array.prototype.sort uses
    allMetros,       \* app.js:3
    filteredMetros,  \* app.js:4
    currentSort,     \* app.js:5
    selectedStates,  \* app.js:7
    allStates,       \* app.js:8
    maxPrice,        \* value of the #maxPrice input
    minYield,        \* value of the #minYield input (tenths of a percent)
    maxAirportDist,  \* value of the #maxAirportDist input
    marketType,      \* value of the #marketType select
    lastHandler,     \* history: the kind of handler that ran last
    prevSort,        \* history: currentSort before the last handleSort
    metro,           \* the record the detail view was opened for
    breakdown,       \* the result of calculateScoreBreakdown(metro)
    csv              \* the lines of the file exportToExcel handed to the browser

sessionVars == <<pc, engine, allMetros, filteredMetros, currentSort,
                 selectedStates, allStates, maxPrice, minYield,
                 maxAirportDist, marketType, lastHandler, prevSort>>
scoreVars == <<metro, breakdown, csv>>
vars == <<sessionVars, scoreVars>>

(***************************************************************************)
(* Bounds of the model.                                                    *)
(***************************************************************************)
MaxMetros == 3

\* The records a dataset is drawn from.  R1/R3 and R2/R4 tie on
\* composite_score, R1/R2 both lack crime_rate, R2 lacks every optional
\* field, R4 has a distance, a rent growth and a vacancy rate of 0.
R1 == [region_id |-> 1, name |-> "Joplin, MO", state |-> "MO",
       median_price |-> 250000, monthly_rent |-> 1500, gross_yield |-> 72,
       airport_distance_miles |-> 20, nearest_airport |-> "JLN",
       market_type |-> "High Yield", composite_score |-> 625,
       rent_growth_yoy |-> 30, pop_growth_yoy |-> 20, job_growth_yoy |-> 15,
       vacancy_rate |-> 50, landlord_score |-> 7, population |-> 180000]
R2 == [region_id |-> 2, name |-> "Sedalia, MO", state |-> "MO",
       median_price |-> 300000, monthly_rent |-> 1250, gross_yield |-> 50,
       composite_score |-> 500]
R3 == [region_id |-> 3, name |-> "Waco, TX", state |-> "TX",
       median_price |-> 250000, monthly_rent |-> 1250, gross_yield |-> 60,
       airport_distance_miles |-> 30, nearest_airport |-> "ACT",
       market_type |-> "Growth", composite_score |-> 625, crime_rate |-> 200,
       pop_growth_yoy |-> 40, landlord_score |-> 10, population |-> 280000]
R4 == [region_id |-> 4, name |-> "Lubbock, TX", state |-> "TX",
       median_price |-> 300000, monthly_rent |-> 1375, gross_yield |-> 55,
       airport_distance_miles |-> 0, nearest_airport |-> "LBB",
       market_type |-> "Both", composite_score |-> 500, crime_rate |-> 300,
       rent_growth_yoy |-> 0, job_growth_yoy |-> -30, vacancy_rate |-> 0,
       landlord_score |-> 10]
MetroUniverse == {R1, R2, R3, R4}

\* Datasets: sequences of distinct records (region_id is unique).
DatasetsOf(universe) ==
    UNION { { s \in [1..n -> universe] :
                \A i, j \in 1..n : i # j => s[i] # s[j] } : n \in 0..MaxMetros }
Datasets == DatasetsOf(MetroUniverse)

\* Records of a dataset whose state is missing: R5 has no state (null),
\* R6 has the empty string.  Both pass every other default criterion.
R5 == [region_id |-> 5, name |-> "Micropolis", median_price |-> 250000,
       monthly_rent |-> 1250, gross_yield |-> 60, market_type |-> "Growth",
       composite_score |-> 700]
R6 == [region_id |-> 6, name |-> "Nowhere", state |-> "",
       median_price |-> 250000, monthly_rent |-> 1500, gross_yield |-> 72,
       composite_score |-> 400, crime_rate |-> 100]
WideUniverse == {R1, R4, R5, R6}
WideDatasets == DatasetsOf(WideUniverse)

\* Positions of the sliders and of the select the model lets the user pick.
PriceSteps == {250000, 300000}
YieldSteps == {50, 60}
AirportDistSteps == {10, 30}
MarketTypeOptions == {"all", "Growth"}

\* th.sortable columns the model clicks on.
NumericColumns == {"composite_score", "crime_rate"}
StringColumns == {"market_type"}
SortColumns == NumericColumns \cup StringColumns

\* Array.prototype.sort is stable, but ECMAScript leaves open in which order
\* the two elements are handed to the comparator; with a comparator that is
\* not consistent the order of the result is implementation-defined.
Engines == {"laterFirst", "earlierFirst"}

Range(s) == { s[i] : i \in 1..Len(s) }
Has(m, f) == f \in DOMAIN m

(***************************************************************************)
(* README "Default Filters" / resetFilters.                                *)
(***************************************************************************)
DefaultMaxPrice == 300000
DefaultMinYield == 50
DefaultMaxAirportDist == 30
DefaultMarketType == "all"
DefaultSort == [column |-> "composite_score", direction |-> "desc"]

(***************************************************************************)
(* applyFilters: the predicate of allMetros.filter (app.js:219-236).       *)
(***************************************************************************)
\* JavaScript truthiness of a numeric / of a string field.
TruthyNumber(m, f) == Has(m, f) /\ m[f] # 0
TruthyString(m, f) == Has(m, f) /\ m[f] # ""

\* Variant: a record priced exactly at the ceiling is filtered out.
passesFilter_strictPrice(m, mp, my, md, mt, sel) ==
    IF m.median_price >= mp THEN FALSE
    ELSE IF m.gross_yield < my THEN FALSE
    ELSE IF TruthyNumber(m, "airport_distance_miles")
            /\ m.airport_distance_miles > md THEN FALSE
    ELSE IF mt # "all" /\ (~Has(m, "market_type") \/ m.market_type # mt)
         THEN FALSE
    ELSE IF ~(Has(m, "state") /\ m.state \in sel) THEN FALSE
    ELSE TRUE

\* Variant: the price comparison is the wrong way round.
passesFilter_priceFloor(m, mp, my, md, mt, sel) ==
    IF m.median_price < mp THEN FALSE
    ELSE IF m.gross_yield < my THEN FALSE
    ELSE IF TruthyNumber(m, "airport_distance_miles")
            /\ m.airport_distance_miles > md THEN FALSE
    ELSE IF mt # "all" /\ (~Has(m, "market_type") \/ m.market_type # mt)
         THEN FALSE
    ELSE IF ~(Has(m, "state") /\ m.state \in sel) THEN FALSE
    ELSE TRUE

passesFilter(m, mp, my, md, mt, sel) ==
    IF m.median_price > mp THEN FALSE
    ELSE IF m.gross_yield < my THEN FALSE
    ELSE IF TruthyNumber(m, "airport_distance_miles")
            /\ m.airport_distance_miles > md THEN FALSE
    ELSE IF mt # "all" /\ (~Has(m, "market_type") \/ m.market_type # mt)
         THEN FALSE
    ELSE IF ~(Has(m, "state") /\ m.state \in sel) THEN FALSE
    ELSE TRUE

\* populateStateFilter (app.js:53): the distinct non-empty state values.
\* The array is kept sorted for display only; the model keeps the set.
\* Variant: the filter(Boolean) is missing, the empty string is a state.
statesOf_unfiltered(all) ==
    { all[i].state : i \in { k \in 1..Len(all) : Has(all[k], "state") } }

statesOf(all) ==
    { all[i].state : i \in { k \in 1..Len(all) : TruthyString(all[k], "state") } }

\* Variant: the state selection is not applied.
filterMetros_everyState(all, mp, my, md, mt, sel) ==
    SelectSeq(all, LAMBDA m : passesFilter(m, mp, my, md, mt, statesOf(all)))

filterMetros(all, mp, my, md, mt, sel) ==
    SelectSeq(all, LAMBDA m : passesFilter(m, mp, my, md, mt, sel))

(***************************************************************************)
(* sortMetros: the comparator (app.js:275-289).                            *)
(* A JavaScript value is a tagged record; the comparator's result is a     *)
(* number of which only NaN-ness and the sign matter to the sort.          *)
(***************************************************************************)
JSNull == [type |-> "null"]
JSNumber(n) == [type |-> "number", n |-> n]
JSString(s) == [type |-> "string", s |-> s]
JSInfinity(sign) == [type |-> "infinity", sign |-> sign]
NaN == [nan |-> TRUE, sign |-> 0]
Finite(n) == [nan |-> FALSE, sign |-> IF n < 0 THEN -1 ELSE IF n > 0 THEN 1 ELSE 0]

\* a[column]
Prop(m, column) ==
    IF ~Has(m, column) THEN JSNull
    ELSE IF column \in StringColumns THEN JSString(m[column])
    ELSE JSNumber(m[column])

\* String(v) for the values localeCompare can be handed.
StringOf(v) ==
    CASE v.type = "string" -> v.s
      [] v.type = "infinity" -> IF v.sign > 0 THEN "Infinity" ELSE "-Infinity"

\* The collation order of the strings that can meet in localeCompare:
\* punctuation sorts before letters, letters alphabetically.
Collation == <<"-Infinity", "Both", "Growth", "High Yield", "Infinity">>
CollationRank(s) == CHOOSE i \in 1..Len(Collation) : Collation[i] = s
localeCompare(a, b) ==
    IF CollationRank(a) < CollationRank(b) THEN -1
    ELSE IF CollationRank(a) > CollationRank(b) THEN 1 ELSE 0

\* aVal - bVal, for aVal not a string.
Minus(aVal, bVal) ==
    CASE bVal.type = "string" -> NaN
      [] aVal.type = "number" /\ bVal.type = "number" -> Finite(aVal.n - bVal.n)
      [] aVal.type = "infinity" /\ bVal.type = "number" -> Finite(aVal.sign)
      [] aVal.type = "number" /\ bVal.type = "infinity" -> Finite(0 - bVal.sign)
      [] aVal.type = "infinity" /\ bVal.type = "infinity" ->
            IF aVal.sign = bVal.sign THEN NaN ELSE Finite(aVal.sign)

Times(r, multiplier) ==
    IF r.nan THEN NaN ELSE Finite(r.sign * multiplier)

NullToInfinity(v, direction) ==
    IF v.type = "null"
    THEN (IF direction = "asc" THEN JSInfinity(1) ELSE JSInfinity(-1))
    ELSE v

compareFn(a, b, sort) ==
    LET multiplier == IF sort.direction = "asc" THEN 1 ELSE -1
        aVal == NullToInfinity(Prop(a, sort.column), sort.direction)
        bVal == NullToInfinity(Prop(b, sort.column), sort.direction)
    IN  IF aVal.type = "string"
        THEN Times(Finite(localeCompare(aVal.s, StringOf(bVal))), multiplier)
        ELSE Times(Minus(aVal, bVal), multiplier)

(***************************************************************************)
(* Array.prototype.sort (app.js:275): SortCompare turns a NaN result into  *)
(* +0; the sort is a stable insertion sort.  "laterFirst" hands the        *)
(* comparator (later, earlier) and moves the later element forward while   *)
(* the result is < 0; "earlierFirst" hands it (earlier, later) and moves   *)
(* the later element forward while the result is > 0.  Both give the same  *)
(* result for a consistent comparator.                                     *)
(***************************************************************************)
SortCompare(a, b, sort) ==
    LET v == compareFn(a, b, sort) IN IF v.nan THEN 0 ELSE v.sign

MovesBefore(item, elem, sort, eng) ==
    IF eng = "laterFirst"
    THEN SortCompare(item, elem, sort) < 0
    ELSE SortCompare(elem, item, sort) > 0

RECURSIVE InsertAt(_, _, _, _, _)
InsertAt(sorted, item, j, sort, eng) ==
    IF j >= 1 /\ MovesBefore(item, sorted[j], sort, eng)
    THEN InsertAt(sorted, item, j - 1, sort, eng)
    ELSE SubSeq(sorted, 1, j) \o <<item>> \o SubSeq(sorted, j + 1, Len(sorted))

RECURSIVE ArraySort(_, _, _)
ArraySort(list, sort, eng) ==
    IF Len(list) <= 1 THEN list
    ELSE LET n == Len(list)
             front == ArraySort(SubSeq(list, 1, n - 1), sort, eng)
         IN  InsertAt(front, list[n], n - 1, sort, eng)

sortMetros(list, sort, eng) == ArraySort(list, sort, eng)

(***************************************************************************)
(* Exact arithmetic for the score: a number is a fraction [n, d] in lowest *)
(* terms with d > 0.  (The program computes in IEEE doubles; the model     *)
(* leaves the rounding error of the doubles out.)                          *)
(***************************************************************************)
Abs(x) == IF x < 0 THEN 0 - x ELSE x

RECURSIVE GCD(_, _)
GCD(a, b) == IF b = 0 THEN a ELSE GCD(b, a % b)

Rat(n, d) ==
    LET g == GCD(Abs(n), Abs(d))
        s == IF d < 0 THEN -1 ELSE 1
    IN  [n |-> (s * n) \div g, d |-> (s * d) \div g]

RAdd(x, y) ==
    LET l == (x.d \div GCD(x.d, y.d)) * y.d
    IN  Rat(x.n * (l \div x.d) + y.n * (l \div y.d), l)
RNeg(x) == [n |-> 0 - x.n, d |-> x.d]
RSub(x, y) == RAdd(x, RNeg(y))
RMul(x, y) ==
    LET g1 == GCD(Abs(x.n), y.d)
        g2 == GCD(Abs(y.n), x.d)
    IN  Rat((x.n \div g1) * (y.n \div g2), (x.d \div g2) * (y.d \div g1))
RDiv(x, y) == RMul(x, Rat(y.d, y.n))
RLess(x, y) == x.n * y.d < y.n * x.d
RLeq(x, y) == x.n * y.d <= y.n * x.d
RMin(x, y) == IF RLess(y, x) THEN y ELSE x
RMax(x, y) == IF RLess(x, y) THEN y ELSE x
Whole(k) == Rat(k, 1)
\* Math.round: to the nearest integer, halves towards +Infinity.
MathRound(x) == Whole((2 * x.n + x.d) \div (2 * x.d))

(***************************************************************************)
(* calculateScoreBreakdown (app.js:417-527).                               *)
(***************************************************************************)
\* app.js:11-18
WEIGHTS ==
    [gross_yield |-> Rat(30, 100), population_growth |-> Rat(20, 100),
     job_growth |-> Rat(15, 100), rent_growth |-> Rat(15, 100),
     landlord_score |-> Rat(10, 100), vacancy_rate |-> Rat(10, 100)]

\* The factors in the order the breakdown is built, and the record field
\* each one reads.
Factors == <<"gross_yield", "population_growth", "job_growth", "rent_growth",
             "landlord_score", "vacancy_rate">>
FactorField ==
    [gross_yield |-> "gross_yield", population_growth |-> "pop_growth_yoy",
     job_growth |-> "job_growth_yoy", rent_growth |-> "rent_growth_yoy",
     landlord_score |-> "landlord_score", vacancy_rate |-> "vacancy_rate"]

\* The raw value of a field as a number: percentages are stored in tenths,
\* landlord_score is stored as it is.
rawValue(m, factor) ==
    IF factor = "landlord_score" THEN Whole(m[FactorField[factor]])
    ELSE Rat(m[FactorField[factor]], 10)

normalizeGrossYield(raw) ==
    RMin(RMul(RDiv(raw, Whole(12)), Whole(100)), Whole(100))
normalizePopulationGrowth(raw) ==
    RMax(Whole(0), RMin(Whole(100),
         RMul(RDiv(RAdd(raw, Whole(1)), Whole(4)), Whole(100))))
\* Variant: job growth is scaled over the range of population growth.
normalizeJobGrowth_popRange(raw) ==
    RMax(Whole(0), RMin(Whole(100),
         RMul(RDiv(RAdd(raw, Whole(1)), Whole(4)), Whole(100))))
normalizeJobGrowth(raw) ==
    RMax(Whole(0), RMin(Whole(100),
         RMul(RDiv(RAdd(raw, Whole(2)), Whole(7)), Whole(100))))
normalizeRentGrowth(raw) ==
    RMax(Whole(0), RMin(Whole(100),
         RMul(RDiv(RAdd(raw, Whole(2)), Whole(10)), Whole(100))))
normalizeLandlordScore(raw) == RMul(raw, Whole(10))
\* Variant: the Math.max(0, ...) is missing.
normalizeVacancyRate_unclamped(raw) ==
    RSub(Whole(100), RMul(RDiv(raw, Whole(20)), Whole(100)))
normalizeVacancyRate(raw) ==
    RMax(Whole(0), RSub(Whole(100), RMul(RDiv(raw, Whole(20)), Whole(100))))

normalize(factor, raw) ==
    CASE factor = "gross_yield" -> normalizeGrossYield(raw)
      [] factor = "population_growth" -> normalizePopulationGrowth(raw)
      [] factor = "job_growth" -> normalizeJobGrowth(raw)
      [] factor = "rent_growth" -> normalizeRentGrowth(raw)
      [] factor = "landlord_score" -> normalizeLandlordScore(raw)
      [] factor = "vacancy_rate" -> normalizeVacancyRate(raw)

\* Variant: a factor is taken when its field is truthy, so a 0 is left out.
presentFactors_truthy(m) ==
    { Factors[i] :
        i \in { k \in 1..Len(Factors) : TruthyNumber(m, FactorField[Factors[k]]) } }

\* The factors whose field is != null.
presentFactors(m) ==
    { Factors[i] : i \in { k \in 1..Len(Factors) : Has(m, FactorField[Factors[k]]) } }

component(m, factor) ==
    LET raw == rawValue(m, factor)
        normalized == normalize(factor, raw)
    IN  [raw |-> raw, normalized |-> normalized, weight |-> WEIGHTS[factor],
         weighted |-> RMul(normalized, WEIGHTS[factor])]

\* for (const key in breakdown) ... += breakdown[key].<field>
RECURSIVE sumOver(_, _, _)
sumOver(components, field, i) ==
    IF i > Len(Factors) THEN Whole(0)
    ELSE IF Factors[i] \in DOMAIN components
         THEN RAdd(components[Factors[i]][field], sumOver(components, field, i + 1))
         ELSE sumOver(components, field, i + 1)

\* Object.values(WEIGHTS).reduce((a, b) => a + b, 0)
RECURSIVE sumOfWeights(_)
sumOfWeights(i) ==
    IF i > Len(Factors) THEN Whole(0)
    ELSE RAdd(WEIGHTS[Factors[i]], sumOfWeights(i + 1))

\* app.js:517-518, the constant finalScore before it is rounded.
finalScoreOf(weightedSum, totalWeight, adjustmentFactor) ==
    IF RLess(Whole(0), totalWeight)
    THEN RMul(RDiv(weightedSum, totalWeight), adjustmentFactor)
    ELSE Whole(0)

calculateScoreBreakdown(m) ==
    LET components == [f \in presentFactors(m) |-> component(m, f)]
        totalWeight == sumOver(components, "weight", 1)
        weightedSum == sumOver(components, "weighted", 1)
        adjustmentFactor == RDiv(totalWeight, sumOfWeights(1))
        finalScore == finalScoreOf(weightedSum, totalWeight, adjustmentFactor)
    IN  [open |-> TRUE,
         components |-> components,
         totalWeight |-> totalWeight,
         weightedSum |-> weightedSum,
         adjustmentFactor |-> adjustmentFactor,
         unrounded |-> finalScore,
         finalScore |-> RDiv(MathRound(RMul(finalScore, Whole(10))), Whole(10))]

NoBreakdown == [open |-> FALSE]

\* The records the breakdown is computed for: every factor either absent
\* or one of a few values of its documented range.
Optional(values) == { <<>> } \cup { <<v>> : v \in values }
GrossYieldValues == {1, 72, 120, 150}
LandlordScoreValues == {1, 7, 10}
VacancyRateValues == {0, 50, 250, 1000}
scoreMetro(gy, pg, jg, rg, ls, vr) ==
    LET given == [gross_yield |-> gy, pop_growth_yoy |-> pg, job_growth_yoy |-> jg,
                  rent_growth_yoy |-> rg, landlord_score |-> ls, vacancy_rate |-> vr]
    IN  [f \in { g \in DOMAIN given : given[g] # <<>> } |-> given[f][1]]
ScoreMetros ==
    { scoreMetro(gy, pg, jg, rg, ls, vr) :
        gy \in Optional(GrossYieldValues), pg \in Optional({-20, 20, 40}),
        jg \in Optional({-30, 15, 60}), rg \in Optional({-30, 30, 90}),
        ls \in Optional(LandlordScoreValues), vr \in Optional(VacancyRateValues) }

(***************************************************************************)
(* The handlers.                                                           *)
(***************************************************************************)
\* applyFilters (app.js:213-248) on the inputs' values mp, my, md, mt and
\* the selection sel: filter allMetros, then sortMetros().
\* Variant: the passing records are added to the view as it stands.
applyFilters_append(mp, my, md, mt, sel) ==
    filteredMetros' =
        sortMetros(filteredMetros \o filterMetros(allMetros, mp, my, md, mt, sel),
                   currentSort, engine)

applyFilters(mp, my, md, mt, sel) ==
    filteredMetros' =
        sortMetros(filterMetros(allMetros, mp, my, md, mt, sel), currentSort, engine)

\* Variant: a run of applyFilters puts the sort back to its default.
NoSort_reset == /\ currentSort' = DefaultSort
                /\ prevSort' = currentSort
NoSort == /\ UNCHANGED currentSort
          /\ prevSort' = currentSort

\* History only: lastHandler is "load", "apply" (a handler that ended in
\* applyFilters), "reapply" (applyFilters ran again right after a run of
\* applyFilters, with no criterion and no sort changed), "reset" or "sort".
ApplyTags == {"load", "apply", "reapply", "reset"}
againTag(sel) ==
    IF lastHandler \in ApplyTags /\ sel = selectedStates THEN "reapply" ELSE "apply"

\* History only: metro, breakdown and csv hold what the handler that ran last
\* showed or downloaded; a handler that opens no detail view and downloads
\* no file leaves none.
NoMetro == [region_id |-> 0]
NoCsv == <<>>
noOutput == metro' = NoMetro /\ breakdown' = NoBreakdown /\ csv' = NoCsv

\* pc once the DOMContentLoaded handler has run: "ready" after a load that
\* succeeded, "loadFailed" after one that failed.  setupEventListeners
\* (app.js:173-194) runs in both cases; the listeners of the state dropdown
\* are registered by populateStateFilter, which a failed load never reaches.
\* Variant: the listeners are registered only after a load that succeeded.
Listening_readyOnly == {"ready"}
Listening == {"ready", "loadFailed"}

Init ==
    /\ pc = "loading"
    /\ engine \in Engines
    /\ allMetros = <<>>
    /\ filteredMetros = <<>>
    /\ currentSort = DefaultSort
    /\ selectedStates = {}
    /\ allStates = {}
    /\ maxPrice = DefaultMaxPrice
    /\ minYield = DefaultMinYield
    /\ maxAirportDist = DefaultMaxAirportDist
    /\ marketType = DefaultMarketType
    /\ lastHandler = "none"
    /\ prevSort = DefaultSort
    /\ metro = NoMetro
    /\ breakdown = NoBreakdown
    /\ csv = NoCsv

\* DOMContentLoaded (app.js:21-25) with a fetch that succeeds and delivers
\* data: loadData, populateStateFilter, setupEventListeners, applyFilters.
startup(data) ==
    /\ allMetros' = data
    /\ allStates' = statesOf(data)
    /\ selectedStates' = statesOf(data)
    /\ filteredMetros' =
          sortMetros(filterMetros(data, maxPrice, minYield, maxAirportDist,
                                  marketType, statesOf(data)),
                     currentSort, engine)
    /\ pc' = "ready"
    /\ lastHandler' = "load"
    /\ NoSort
    /\ UNCHANGED <<engine, maxPrice, minYield, maxAirportDist, marketType>>
    /\ noOutput

loadData ==
    /\ pc = "loading"
    /\ \E data \in Datasets : startup(data)

\* handlePriceChange (app.js:197-200): the input event, the slider has taken
\* the new value v.
handlePriceChange ==
    /\ pc \in Listening
    /\ \E v \in PriceSteps \ {maxPrice} :
          /\ maxPrice' = v
          /\ applyFilters(v, minYield, maxAirportDist, marketType, selectedStates)
    /\ lastHandler' = "apply"
    /\ NoSort
    /\ UNCHANGED <<pc, engine, allMetros, selectedStates, allStates, minYield,
                   maxAirportDist, marketType>>
    /\ noOutput

\* handleYieldChange (app.js:202-205).
handleYieldChange ==
    /\ pc \in Listening
    /\ \E v \in YieldSteps \ {minYield} :
          /\ minYield' = v
          /\ applyFilters(maxPrice, v, maxAirportDist, marketType, selectedStates)
    /\ lastHandler' = "apply"
    /\ NoSort
    /\ UNCHANGED <<pc, engine, allMetros, selectedStates, allStates, maxPrice,
                   maxAirportDist, marketType>>
    /\ noOutput

\* handleAirportDistChange (app.js:207-210).
handleAirportDistChange ==
    /\ pc \in Listening
    /\ \E v \in AirportDistSteps \ {maxAirportDist} :
          /\ maxAirportDist' = v
          /\ applyFilters(maxPrice, minYield, v, marketType, selectedStates)
    /\ lastHandler' = "apply"
    /\ NoSort
    /\ UNCHANGED <<pc, engine, allMetros, selectedStates, allStates, maxPrice,
                   minYield, marketType>>
    /\ noOutput

\* The change listener of #marketType (app.js:178) is applyFilters itself.
handleMarketTypeChange ==
    /\ pc \in Listening
    /\ \E v \in MarketTypeOptions \ {marketType} :
          /\ marketType' = v
          /\ applyFilters(maxPrice, minYield, maxAirportDist, v, selectedStates)
    /\ lastHandler' = "apply"
    /\ NoSort
    /\ UNCHANGED <<pc, engine, allMetros, selectedStates, allStates, maxPrice,
                   minYield, maxAirportDist>>
    /\ noOutput

\* toggleStateSelection (app.js:134-143), called from the click listener of
\* an option; the options are rendered from allStates (app.js:112-127).
toggledSelection(sel, state) ==
    IF state \in sel THEN sel \ {state} ELSE sel \cup {state}

toggleStateSelection ==
    /\ pc = "ready"
    /\ \E state \in allStates :
          /\ selectedStates' = toggledSelection(selectedStates, state)
          /\ applyFilters(maxPrice, minYield, maxAirportDist, marketType,
                          toggledSelection(selectedStates, state))
    /\ lastHandler' = "apply"
    /\ NoSort
    /\ UNCHANGED <<pc, engine, allMetros, allStates, maxPrice, minYield,
                   maxAirportDist, marketType>>
    /\ noOutput

\* Select All (app.js:81-87).
selectAllStates ==
    /\ pc = "ready"
    /\ selectedStates' = allStates
    /\ applyFilters(maxPrice, minYield, maxAirportDist, marketType, allStates)
    /\ lastHandler' = againTag(allStates)
    /\ NoSort
    /\ UNCHANGED <<pc, engine, allMetros, allStates, maxPrice, minYield,
                   maxAirportDist, marketType>>
    /\ noOutput

\* Deselect All (app.js:90-96).
deselectAllStates ==
    /\ pc = "ready"
    /\ selectedStates' = {}
    /\ applyFilters(maxPrice, minYield, maxAirportDist, marketType, {})
    /\ lastHandler' = againTag({})
    /\ NoSort
    /\ UNCHANGED <<pc, engine, allMetros, allStates, maxPrice, minYield,
                   maxAirportDist, marketType>>
    /\ noOutput

\* resetFilters (app.js:251-268).
\* Variant: the selection is left as it is.
resetSelection_kept == selectedStates
resetSelection == allStates

resetFilters ==
    /\ pc \in Listening
    /\ maxPrice' = DefaultMaxPrice
    /\ minYield' = DefaultMinYield
    /\ maxAirportDist' = DefaultMaxAirportDist
    /\ marketType' = DefaultMarketType
    /\ selectedStates' = resetSelection
    /\ applyFilters(DefaultMaxPrice, DefaultMinYield, DefaultMaxAirportDist,
                    DefaultMarketType, resetSelection)
    /\ lastHandler' = "reset"
    /\ NoSort
    /\ UNCHANGED <<pc, engine, allMetros, allStates>>
    /\ noOutput

\* handleSort (app.js:293-313): the new sort spec, then sortMetros() on the
\* view as it stands.
\* Variant: a new column keeps the direction.
nextSort_keepDirection(sort, column) ==
    IF sort.column = column
    THEN [column |-> sort.column,
          direction |-> IF sort.direction = "asc" THEN "desc" ELSE "asc"]
    ELSE [column |-> column, direction |-> sort.direction]

nextSort(sort, column) ==
    IF sort.column = column
    THEN [column |-> sort.column,
          direction |-> IF sort.direction = "asc" THEN "desc" ELSE "asc"]
    ELSE [column |-> column, direction |-> "desc"]

\* allMetros after filteredMetros.sort(...) of app.js:275: the array sorted
\* in place is the one allMetros.filter(...) returned (app.js:219), a new
\* array, so allMetros is not reordered.
\* Variant: the view shares its array with allMetros.
allMetrosAfterSort_shared(all, sort, eng) == sortMetros(all, sort, eng)
allMetrosAfterSort(all, sort, eng) == all

handleSort ==
    /\ pc \in Listening
    /\ \E column \in SortColumns :
          /\ currentSort' = nextSort(currentSort, column)
          /\ filteredMetros' =
                sortMetros(filteredMetros, nextSort(currentSort, column), engine)
          /\ allMetros' =
                allMetrosAfterSort(allMetros, nextSort(currentSort, column), engine)
    /\ prevSort' = currentSort
    /\ lastHandler' = "sort"
    /\ UNCHANGED <<pc, engine, selectedStates, allStates, maxPrice,
                   minYield, maxAirportDist, marketType>>
    /\ noOutput

Next ==
    \/ loadData
    \/ handlePriceChange
    \/ handleYieldChange
    \/ handleAirportDistChange
    \/ handleMarketTypeChange
    \/ toggleStateSelection
    \/ selectAllStates
    \/ deselectAllStates
    \/ resetFilters
    \/ handleSort

Spec == Init /\ [][Next]_vars

(***************************************************************************)
(* The score breakdown on its own: the detail view is opened for one       *)
(* record (openDetail, app.js:530-538).                                    *)
(***************************************************************************)
InitScore ==
    /\ pc = "ready"
    /\ engine = "laterFirst"
    /\ allMetros = <<>>
    /\ filteredMetros = <<>>
    /\ currentSort = DefaultSort
    /\ selectedStates = {}
    /\ allStates = {}
    /\ maxPrice = DefaultMaxPrice
    /\ minYield = DefaultMinYield
    /\ maxAirportDist = DefaultMaxAirportDist
    /\ marketType = DefaultMarketType
    /\ lastHandler = "none"
    /\ prevSort = DefaultSort
    /\ metro \in ScoreMetros
    /\ breakdown = NoBreakdown
    /\ csv = NoCsv

openDetail ==
    /\ ~breakdown.open
    /\ breakdown' = calculateScoreBreakdown(metro)
    /\ UNCHANGED <<metro, csv>>
    /\ UNCHANGED sessionVars

NextScore == openDetail

SpecScore == InitScore /\ [][NextScore]_vars

(***************************************************************************)
(* exportToExcel (app.js:704-743).  A cell is a JavaScript value; join(',') *)
(* writes a number as its numeral, a string as it is and null or undefined *)
(* as nothing.                                                             *)
(***************************************************************************)
ExportHeaders ==
    <<"Rank", "Metro", "State", "Market Type", "Composite Score",
      "Median Price", "Monthly Rent", "Gross Yield %", "Rent Growth YoY %",
      "Population Growth YoY %", "Job Growth YoY %", "Vacancy Rate %",
      "Landlord Score", "Crime Rate (per 100k)", "Nearest Airport",
      "Airport Distance (mi)", "Population">>

StringFields == {"name", "state", "market_type", "nearest_airport"}

\* m[f]
Field(m, f) ==
    IF ~Has(m, f) THEN JSNull
    ELSE IF f \in StringFields THEN JSString(m[f])
    ELSE JSNumber(m[f])

\* v is falsy: null, undefined, 0 or ''.
Falsy(v) ==
    \/ v.type = "null"
    \/ v.type = "number" /\ v.n = 0
    \/ v.type = "string" /\ v.s = ""

\* m[f] || ''
orEmpty(m, f) == IF Falsy(Field(m, f)) THEN JSString("") ELSE Field(m, f)

\* `"${m.name}"`
quotedName(m) ==
    IF Has(m, "name") THEN JSString("\"" \o m.name \o "\"")
    ELSE JSString("\"undefined\"")

\* The array built for the record m at index i (counted from 0).
exportRow(m, i) ==
    <<JSNumber(i + 1), quotedName(m), Field(m, "state"),
      orEmpty(m, "market_type"), Field(m, "composite_score"),
      Field(m, "median_price"), Field(m, "monthly_rent"),
      Field(m, "gross_yield"), orEmpty(m, "rent_growth_yoy"),
      orEmpty(m, "pop_growth_yoy"), orEmpty(m, "job_growth_yoy"),
      orEmpty(m, "vacancy_rate"), orEmpty(m, "landlord_score"),
      orEmpty(m, "crime_rate"), orEmpty(m, "nearest_airport"),
      orEmpty(m, "airport_distance_miles"), orEmpty(m, "population")>>

\* The text join(',') writes for a cell: [numeral |-> n] is the decimal
\* numeral of n, [text |-> s] the characters of s.
Numeral(n) == [numeral |-> n]
Text(s) == [text |-> s]
cellText(v) ==
    CASE v.type = "null" -> Text("")
      [] v.type = "string" -> Text(v.s)
      [] v.type = "number" -> Numeral(v.n)

joinCells(r) == [k \in DOMAIN r |-> cellText(r[k])]

\* The lines of the file: the headers, then one line per row.
exportCsv(view) ==
    <<[k \in DOMAIN ExportHeaders |-> Text(ExportHeaders[k])]>>
    \o [p \in 1..Len(view) |-> joinCells(exportRow(view[p], p - 1))]

exportToExcel ==
    /\ pc \in Listening
    /\ csv' = exportCsv(filteredMetros)
    /\ metro' = NoMetro
    /\ breakdown' = NoBreakdown
    /\ lastHandler' = "export"
    /\ NoSort
    /\ UNCHANGED <<pc, engine, allMetros, filteredMetros, selectedStates,
                   allStates, maxPrice, minYield, maxAirportDist, marketType>>

(***************************************************************************)
(* The whole session: a load that may fail, datasets with records that     *)
(* have no state, the detail view and the export.                          *)
(***************************************************************************)
loadDataWide ==
    /\ pc = "loading"
    /\ \E data \in WideDatasets : startup(data)

\* loadData (app.js:28-49) when fetch or response.json() rejects: the
\* assignment of app.js:32 and populateStateFilter are not reached, the
\* catch block writes the error row, loadData returns.
loadDataFailed ==
    /\ pc = "loading"
    /\ pc' = "caught"
    /\ UNCHANGED <<engine, allMetros, filteredMetros, currentSort,
                   selectedStates, allStates, maxPrice, minYield,
                   maxAirportDist, marketType, lastHandler, prevSort>>
    /\ noOutput

\* The DOMContentLoaded handler after `await loadData()` (app.js:23-24):
\* setupEventListeners, applyFilters.
startupAfterFailure ==
    /\ pc = "caught"
    /\ applyFilters(maxPrice, minYield, maxAirportDist, marketType,
                    selectedStates)
    /\ pc' = "loadFailed"
    /\ lastHandler' = "load"
    /\ NoSort
    /\ UNCHANGED <<engine, allMetros, selectedStates, allStates, maxPrice,
                   minYield, maxAirportDist, marketType>>
    /\ noOutput

\* What #metroTableBody shows: the error row of the catch block
\* (app.js:41-46) until renderTable (app.js:316-344) has run.
metroTableBody ==
    IF pc = "loading" THEN "Loading"
    ELSE IF pc = "caught" THEN "Error loading data"
    ELSE IF Len(filteredMetros) = 0 THEN "No markets match your criteria"
    ELSE "rows"

\* allMetros.find(m => m.region_id === regionId), for an id that is there.
find(all, regionId) ==
    all[CHOOSE i \in 1..Len(all) :
            /\ all[i].region_id = regionId
            /\ \A j \in 1..(i - 1) : all[j].region_id # regionId]

\* openDetail(regionId) (app.js:530-538) from the onclick of a row of the
\* table (app.js:330).
openDetailRow ==
    /\ pc \in Listening
    /\ \E i \in 1..Len(filteredMetros) :
          LET found == find(allMetros, filteredMetros[i].region_id)
          IN  /\ metro' = found
              /\ breakdown' = calculateScoreBreakdown(found)
    /\ csv' = NoCsv
    /\ lastHandler' = "detail"
    /\ NoSort
    /\ UNCHANGED <<pc, engine, allMetros, filteredMetros, selectedStates,
                   allStates, maxPrice, minYield, maxAirportDist, marketType>>

NextFull ==
    \/ loadDataWide
    \/ loadDataFailed
    \/ startupAfterFailure
    \/ handlePriceChange
    \/ handleYieldChange
    \/ handleAirportDistChange
    \/ handleMarketTypeChange
    \/ toggleStateSelection
    \/ selectAllStates
    \/ deselectAllStates
    \/ resetFilters
    \/ handleSort
    \/ openDetailRow
    \/ exportToExcel

SpecFull == Init /\ [][NextFull]_vars

(***************************************************************************)
(* Properties.                                                             *)
(***************************************************************************)
handlerDone == lastHandler # "none"

\* The records of allMetros that pass the filter under the inputs' values.
passing ==
    { m \in Range(allMetros) :
        passesFilter(m, maxPrice, minYield, maxAirportDist, marketType,
                     selectedStates) }

NoDuplicates(s) == \A i, j \in 1..Len(s) : i # j => s[i] # s[j]

\* C1: after every handler the view holds exactly the records of allMetros
\* that pass the filter predicate under the current criteria, each once.
C1_ViewIsPassingSet ==
    handlerDone =>
        /\ Range(filteredMetros) = passing
        /\ NoDuplicates(filteredMetros)

\* C1 witness: after a handleSort some records are in the view and some
\* are filtered out.
C1_Witness ==
    /\ lastHandler = "sort"
    /\ filteredMetros # <<>>
    /\ Len(filteredMetros) < Len(allMetros)

\* The order the claims speak of: a record with a value comes before one
\* without; two values are ordered by the direction.
keyLess(x, y, column) ==
    IF column \in StringColumns
    THEN CollationRank(x) < CollationRank(y)
    ELSE x < y
comesBefore(a, b, sort) ==
    IF ~Has(a, sort.column) THEN FALSE
    ELSE IF ~Has(b, sort.column) THEN TRUE
    ELSE IF sort.direction = "asc"
         THEN keyLess(a[sort.column], b[sort.column], sort.column)
         ELSE keyLess(b[sort.column], a[sort.column], sort.column)
keysTie(a, b, sort) == ~comesBefore(a, b, sort) /\ ~comesBefore(b, a, sort)
indexIn(s, m) == CHOOSE i \in 1..Len(s) : s[i] = m
isStableSortOf(view, base, sort) ==
    /\ Len(view) = Len(base)
    /\ Range(view) = Range(base)
    /\ \A i, j \in 1..Len(view) :
          i < j =>
            /\ ~comesBefore(view[j], view[i], sort)
            /\ keysTie(view[i], view[j], sort) =>
                  indexIn(base, view[i]) < indexIn(base, view[j])

\* C2: after any sequence of filter and sort operations the view is the
\* stable sort, by the current column and direction, of the passing records
\* taken in allMetros order (ties in dataset order).
C2_StableSortOfDataset ==
    handlerDone =>
        isStableSortOf(filteredMetros,
                       SelectSeq(allMetros, LAMBDA m : m \in passing),
                       currentSort)

\* C3: a record is in the view if and only if its price is at most
\* maxPrice, its yield at least minYield, its airport distance absent or at
\* most maxAirportDistance, marketType is 'all' or equals its market_type,
\* and its state is selected.
C3_FiveConditions ==
    handlerDone =>
        \A i \in 1..Len(allMetros) :
            LET m == allMetros[i] IN
            (m \in Range(filteredMetros)) <=>
                /\ m.median_price <= maxPrice
                /\ m.gross_yield >= minYield
                /\ (~Has(m, "airport_distance_miles")
                        \/ m.airport_distance_miles <= maxAirportDist)
                /\ (marketType = "all"
                        \/ (Has(m, "market_type") /\ m.market_type = marketType))
                /\ m.state \in selectedStates

\* C3 witness: a record priced exactly at the ceiling and without an
\* airport distance is in the view while another record is filtered out.
C3_Witness ==
    /\ handlerDone
    /\ \E m \in Range(filteredMetros) :
          m.median_price = maxPrice /\ ~Has(m, "airport_distance_miles")
    /\ \E m \in Range(allMetros) : m \notin Range(filteredMetros)

\* C4: after sortMetros every record without a value in the sort column
\* comes after every record with one, for every column and direction.
C4_NullsLast ==
    handlerDone =>
        \A i, j \in 1..Len(filteredMetros) :
            (/\ ~Has(filteredMetros[i], currentSort.column)
             /\ Has(filteredMetros[j], currentSort.column)) => j < i

flipped(direction) == IF direction = "asc" THEN "desc" ELSE "asc"

\* A step of handleSort, and the rule of C5 for it: a click on the sort
\* column flips the direction, a click on another column makes it the sort
\* column with direction 'desc'.
sortStep == lastHandler' = "sort" /\ pc = "ready"
sortRule ==
    \E column \in SortColumns :
        currentSort' =
            IF currentSort.column = column
            THEN [column |-> column, direction |-> flipped(currentSort.direction)]
            ELSE [column |-> column, direction |-> "desc"]
\* The second of two consecutive clicks on one column.
secondClick ==
    /\ lastHandler = "sort"
    /\ sortStep
    /\ currentSort'.column = currentSort.column

\* C5 as stated: the rule, the initial sort spec, and two consecutive clicks
\* on the same column always return to the direction held before the first.
C5_TwoClicksRestore ==
    /\ currentSort = [column |-> "composite_score", direction |-> "desc"]
    /\ [][sortStep =>
            /\ sortRule
            /\ secondClick => currentSort'.direction = prevSort.direction]_vars

\* C5 amended: the rule and the initial sort spec as stated; two consecutive
\* clicks on a column return to the direction held before the first when
\* that column was the sort column already, and end in 'asc' otherwise.
C5_HandleSort ==
    /\ currentSort = [column |-> "composite_score", direction |-> "desc"]
    /\ [][sortStep =>
            /\ sortRule
            /\ secondClick =>
                  currentSort'.direction =
                      IF prevSort.column = currentSort.column
                      THEN prevSort.direction
                      ELSE "asc"]_vars

\* C5 witness: crime_rate was clicked twice in a row.
C5_Witness ==
    /\ lastHandler = "sort"
    /\ prevSort = [column |-> "crime_rate", direction |-> "desc"]
    /\ currentSort = [column |-> "crime_rate", direction |-> "asc"]

\* C6: resetFilters leaves maxPrice=300000, minYield=5, maxAirportDistance=30,
\* marketType='all', every state selected, and the view holding exactly the
\* records that pass these criteria.
C6_ResetRestoresDefaults ==
    lastHandler = "reset" =>
        /\ maxPrice = 300000
        /\ minYield = 50
        /\ maxAirportDist = 30
        /\ marketType = "all"
        /\ selectedStates = statesOf(allMetros)
        /\ Range(filteredMetros) =
              { m \in Range(allMetros) :
                  /\ m.median_price <= 300000
                  /\ m.gross_yield >= 50
                  /\ (~Has(m, "airport_distance_miles")
                          \/ m.airport_distance_miles <= 30)
                  /\ m.state \in statesOf(allMetros) }

\* C6 witness: a reset ran in a session whose sort had been changed and
\* left records in the view.
C6_Witness ==
    /\ lastHandler = "reset"
    /\ currentSort # DefaultSort
    /\ filteredMetros # <<>>

\* C7: for a record missing exactly one of the six factors the final score
\* before rounding is the weighted average of the five present factors with
\* the weights renormalized over them: weightedSum / totalWeight.
C7_RenormalizedAverage ==
    (breakdown.open /\ Cardinality(DOMAIN breakdown.components) = 5) =>
        breakdown.unrounded = RDiv(breakdown.weightedSum, breakdown.totalWeight)

\* A valid record: gross_yield > 0, vacancy_rate in 0..100 %, landlord_score
\* in 1..10, the growth fields any signed value, the optional factors absent
\* or not.
validRecord(m) ==
    /\ Has(m, "gross_yield") /\ m.gross_yield > 0
    /\ Has(m, "vacancy_rate") => m.vacancy_rate \in 0..1000
    /\ Has(m, "landlord_score") => m.landlord_score \in 1..10
inZeroToHundred(x) == RLeq(Whole(0), x) /\ RLeq(x, Whole(100))

\* C8: for every valid record the final score lies in [0,100] and so does
\* the normalized value of every present factor.
C8_ScoreBounds ==
    (breakdown.open /\ validRecord(metro)) =>
        /\ inZeroToHundred(breakdown.unrounded)
        /\ inZeroToHundred(breakdown.finalScore)
        /\ \A f \in DOMAIN breakdown.components :
              inZeroToHundred(breakdown.components[f].normalized)

\* C8 witness: the breakdown of a valid record with a vacancy rate above the
\* 20 % ceiling, a yield above the 12 % cap and a factor missing.
C8_Witness ==
    /\ breakdown.open
    /\ validRecord(metro)
    /\ Has(metro, "vacancy_rate") /\ metro.vacancy_rate = 250
    /\ metro.gross_yield = 150
    /\ ~Has(metro, "landlord_score")

criteria == <<maxPrice, minYield, maxAirportDist, marketType, selectedStates>>

\* C9: applyFilters run again right after a run of applyFilters, with no
\* criterion and no sort changed, leaves the view as it is: same members in
\* the same order.
C9_ApplyFiltersIdempotent ==
    [][(/\ lastHandler \in ApplyTags
        /\ lastHandler' \in ApplyTags
        /\ criteria' = criteria
        /\ currentSort' = currentSort
        /\ allMetros' = allMetros) => filteredMetros' = filteredMetros]_vars

\* C9 witness: applyFilters ran twice in a row on unchanged criteria, in a
\* session whose sort had been changed, with several records in the view.
C9_Witness ==
    /\ lastHandler = "reapply"
    /\ currentSort # DefaultSort
    /\ Len(filteredMetros) >= 2

othersUnchanged(changed) ==
    /\ allMetros' = allMetros
    /\ "maxPrice" \in changed \/ maxPrice' = maxPrice
    /\ "minYield" \in changed \/ minYield' = minYield
    /\ "maxAirportDist" \in changed \/ maxAirportDist' = maxAirportDist
    /\ "selectedStates" \in changed \/ selectedStates' = selectedStates
    /\ marketType' = marketType
tightened ==
    \/ maxPrice' < maxPrice /\ othersUnchanged({"maxPrice"})
    \/ minYield' > minYield /\ othersUnchanged({"minYield"})
    \/ maxAirportDist' < maxAirportDist /\ othersUnchanged({"maxAirportDist"})
    \/ /\ selectedStates' \subseteq selectedStates
       /\ selectedStates' # selectedStates
       /\ othersUnchanged({"selectedStates"})

\* C10: lowering maxPrice, raising minYield, lowering maxAirportDistance or
\* removing states from the selection, the other criteria unchanged, yields
\* a view that is a subset of the previous one and no larger.
C10_FilterMonotone ==
    [][(pc = "ready" /\ tightened) =>
          /\ Range(filteredMetros') \subseteq Range(filteredMetros)
          /\ Len(filteredMetros') <= Len(filteredMetros)]_vars

\* C10 witness: maxPrice stands lowered and has filtered out a record that
\* passes at the default ceiling.
C10_Witness ==
    /\ lastHandler = "apply"
    /\ maxPrice < DefaultMaxPrice
    /\ filteredMetros # <<>>
    /\ \E m \in Range(allMetros) :
          /\ m \notin Range(filteredMetros)
          /\ passesFilter(m, DefaultMaxPrice, minYield, maxAirportDist,
                          marketType, selectedStates)

\* C11: after exportToExcel the file has exactly one data line per record of
\* filteredMetros, in display order, with Rank the 1-based position and the
\* quoted name; a record the filters exclude has no line; every optional
\* field is the empty string when it is missing and its raw value when it
\* is present, a present 0 included.
OptionalColumns ==
    [market_type |-> 4, rent_growth_yoy |-> 9, pop_growth_yoy |-> 10,
     job_growth_yoy |-> 11, vacancy_rate |-> 12, landlord_score |-> 13,
     crime_rate |-> 14, nearest_airport |-> 15, airport_distance_miles |-> 16,
     population |-> 17]
rawText(m, f) == IF f \in StringFields THEN Text(m[f]) ELSE Numeral(m[f])
nameCell(m) == Text("\"" \o m.name \o "\"")
exported == lastHandler = "export"

C11_ExportRows ==
    exported =>
      /\ Len(csv) = Len(filteredMetros) + 1
      /\ \A p \in 1..Len(filteredMetros) :
            LET m == filteredMetros[p]
                line == csv[p + 1]
            IN  /\ line[1] = Numeral(p)
                /\ line[2] = nameCell(m)
                /\ \A f \in DOMAIN OptionalColumns :
                      line[OptionalColumns[f]] =
                          IF Has(m, f) THEN rawText(m, f) ELSE Text("")
      /\ \A m \in Range(allMetros) \ passing :
            \A k \in 2..Len(csv) : csv[k][2] # nameCell(m)

\* C12: when the fetch or the parse of the dataset fails, the error is caught
\* in loadData and the error row is rendered; startup goes on
\* (setupEventListeners, applyFilters); the load is never tried again; and
\* from then on allMetros and filteredMetros are both empty, the table shows
\* an empty-state row and every filter, sort, reset and export handler can
\* run.
afterFailure == pc \in {"caught", "loadFailed"}
sessionEmpty ==
    /\ allMetros = <<>>
    /\ filteredMetros = <<>>
    /\ allStates = {}
    /\ selectedStates = {}
C12_StateAfterFailure ==
    /\ afterFailure => sessionEmpty
    /\ pc = "caught" =>
          /\ metroTableBody = "Error loading data"
          /\ ENABLED startupAfterFailure
    /\ pc = "loadFailed" =>
          /\ metroTableBody = "No markets match your criteria"
          /\ ENABLED handlePriceChange
          /\ ENABLED handleYieldChange
          /\ ENABLED handleAirportDistChange
          /\ ENABLED handleMarketTypeChange
          /\ ENABLED resetFilters
          /\ ENABLED handleSort
          /\ ENABLED exportToExcel
C12_FailedLoad ==
    /\ []C12_StateAfterFailure
    /\ [][afterFailure => (pc' \in {"caught", "loadFailed"} /\ sessionEmpty')]_vars

\* After the failed load the user has moved the price slider and then
\* clicked a column header.
C12_Witness ==
    /\ pc = "loadFailed"
    /\ lastHandler = "sort"
    /\ maxPrice # DefaultMaxPrice
    /\ filteredMetros = <<>>

\* C13: once the startup handler has run, no handler (filter, sort, state
\* toggle, select all, deselect all, reset, detail view, export) adds,
\* removes, reorders or modifies a record of allMetros.
C13_AllMetrosFrozen ==
    [][pc # "loading" => allMetros' = allMetros]_vars

\* A column header has been clicked and the view holds every record of the
\* dataset in another order than allMetros.
C13_Witness ==
    /\ lastHandler = "sort"
    /\ Len(allMetros) >= 2
    /\ Len(filteredMetros) = Len(allMetros)
    /\ filteredMetros # allMetros

\* C14: after sortMetros the records of the view that have a key appear in
\* non-decreasing key order when the direction is "asc" and in
\* non-increasing key order when it is "desc"; and on records that have a
\* key of one type the comparator is antisymmetric and transitive.
Sorts == [column : SortColumns, direction : {"asc", "desc"}]
keyed(sort) == { m \in MetroUniverse : Has(m, sort.column) }
comparatorConsistent ==
    \A sort \in Sorts :
        /\ \A a, b \in keyed(sort) :
              /\ ~compareFn(a, b, sort).nan
              /\ compareFn(a, b, sort).sign = 0 - compareFn(b, a, sort).sign
        /\ \A a, b, c \in keyed(sort) :
              (compareFn(a, b, sort).sign <= 0 /\ compareFn(b, c, sort).sign <= 0)
                  => compareFn(a, c, sort).sign <= 0
keysInOrder(view, sort) ==
    \A i, j \in 1..Len(view) :
        (i < j /\ Has(view[i], sort.column) /\ Has(view[j], sort.column)) =>
            IF sort.direction = "asc"
            THEN ~keyLess(view[j][sort.column], view[i][sort.column], sort.column)
            ELSE ~keyLess(view[i][sort.column], view[j][sort.column], sort.column)
C14_KeysInOrder ==
    handlerDone => (keysInOrder(filteredMetros, currentSort) /\ comparatorConsistent)

\* C15: for every present factor, normalized is
\*   gross_yield        min(raw/12*100, 100)
\*   population_growth  clamp((raw+1)/4*100, 0, 100)
\*   job_growth         clamp((raw+2)/7*100, 0, 100)
\*   rent_growth        clamp((raw+2)/10*100, 0, 100)
\*   landlord_score     raw*10
\*   vacancy_rate       clamp(100 - raw/20*100, 0, 100)
\* and weighted is normalized * weight; for the Scenario A record the
\* normalized values are 60, 75, 50, 50, 70, 75, weightedSum is 62.5,
\* totalWeight is 1.0 and finalScore is 62.5.
\* The formulas are written on the field's value v in tenths (raw = v/10).
clampTo100(n, d) ==
    IF n < 0 THEN Whole(0) ELSE IF n > 100 * d THEN Whole(100) ELSE Rat(n, d)
claimedNormalized(factor, v) ==
    CASE factor = "gross_yield" ->
            IF 100 * v > 12000 THEN Whole(100) ELSE Rat(100 * v, 120)
      [] factor = "population_growth" -> clampTo100(100 * (v + 10), 40)
      [] factor = "job_growth" -> clampTo100(100 * (v + 20), 70)
      [] factor = "rent_growth" -> clampTo100(100 * (v + 20), 100)
      [] factor = "landlord_score" -> Whole(10 * v)
      [] factor = "vacancy_rate" -> clampTo100(100 * (200 - v), 200)
WeightPercent ==
    [gross_yield |-> 30, population_growth |-> 20, job_growth |-> 15,
     rent_growth |-> 15, landlord_score |-> 10, vacancy_rate |-> 10]
ScenarioA ==
    [gross_yield |-> 72, pop_growth_yoy |-> 20, job_growth_yoy |-> 15,
     rent_growth_yoy |-> 30, landlord_score |-> 7, vacancy_rate |-> 50]
ScenarioANormalized ==
    [gross_yield |-> 60, population_growth |-> 75, job_growth |-> 50,
     rent_growth |-> 50, landlord_score |-> 70, vacancy_rate |-> 75]

C15_Normalization ==
    breakdown.open =>
        /\ \A f \in DOMAIN breakdown.components :
              LET c == breakdown.components[f]
                  expected == claimedNormalized(f, metro[FactorField[f]])
              IN  /\ c.normalized = expected
                  /\ c.weighted =
                        Rat(expected.n * WeightPercent[f], expected.d * 100)
        /\ metro = ScenarioA =>
              /\ \A f \in DOMAIN ScenarioANormalized :
                    breakdown.components[f].normalized =
                        Whole(ScenarioANormalized[f])
              /\ breakdown.weightedSum = Rat(625, 10)
              /\ breakdown.totalWeight = Whole(1)
              /\ breakdown.finalScore = Rat(625, 10)

\* The breakdown of the Scenario A record.
C15_Witness == breakdown.open /\ metro = ScenarioA

\* C16: the breakdown has an entry for exactly the factors whose raw field
\* is there (a raw value of 0 is there); totalWeight is the sum of the
\* weights of those factors and weightedSum the sum of their weighted values;
\* with no factor there finalScore is 0.
factorsThere(m) == { f \in Range(Factors) : Has(m, FactorField[f]) }
RECURSIVE percentOf(_)
percentOf(factors) ==
    IF factors = {} THEN 0
    ELSE LET f == CHOOSE g \in factors : TRUE
         IN  WeightPercent[f] + percentOf(factors \ {f})
RECURSIVE weightedOf(_, _)
weightedOf(components, factors) ==
    IF factors = {} THEN Whole(0)
    ELSE LET f == CHOOSE g \in factors : TRUE
         IN  RAdd(components[f].weighted, weightedOf(components, factors \ {f}))

C16_PresentFactorsOnly ==
    breakdown.open =>
        /\ DOMAIN breakdown.components = factorsThere(metro)
        /\ breakdown.totalWeight = Rat(percentOf(factorsThere(metro)), 100)
        /\ breakdown.weightedSum =
              weightedOf(breakdown.components, factorsThere(metro))
        /\ factorsThere(metro) = {} =>
              /\ breakdown.components = <<>>
              /\ breakdown.finalScore = Whole(0)

\* The breakdown of a record with a vacancy rate of 0 and no landlord score.
C16_Witness ==
    /\ breakdown.open
    /\ Has(metro, "vacancy_rate") /\ metro.vacancy_rate = 0
    /\ ~Has(metro, "landlord_score")
    /\ "vacancy_rate" \in DOMAIN breakdown.components

\* C17: a record whose state is null, absent or the empty string is never in
\* filteredMetros, whatever is selected; allStates holds no empty state and
\* selectedStates is always a subset of allStates.
C17_BlankStateExcluded ==
    /\ \A i \in 1..Len(filteredMetros) :
          /\ Has(filteredMetros[i], "state")
          /\ filteredMetros[i].state # ""
    /\ "" \notin allStates
    /\ selectedStates \subseteq allStates

\* The dataset holds a record without a state and one with the empty state,
\* every state has been selected again after a change of the selection, and
\* the view is not empty.
C17_Witness ==
    /\ R5 \in Range(allMetros)
    /\ R6 \in Range(allMetros)
    /\ lastHandler = "apply"
    /\ selectedStates = allStates
    /\ maxPrice = DefaultMaxPrice /\ minYield = DefaultMinYield
    /\ maxAirportDist = DefaultMaxAirportDist /\ marketType = DefaultMarketType
    /\ Len(filteredMetros) >= 1

\* C18: a handler that ends in applyFilters (sliders, market type, state
\* toggle, select all, deselect all, reset) leaves currentSort as it is;
\* handleSort leaves the criteria and the selection as they are and changes
\* the order of filteredMetros only, never its members.
C18_FilterSortFrame ==
    [][/\ lastHandler' \in ApplyTags => currentSort' = currentSort
       /\ lastHandler' = "sort" =>
             /\ criteria' = criteria
             /\ Len(filteredMetros') = Len(filteredMetros)
             /\ Range(filteredMetros') = Range(filteredMetros)]_vars

\* A column header has been clicked while a state was deselected and the
\* view held two records.
C18_Witness ==
    /\ lastHandler = "sort"
    /\ selectedStates # allStates
    /\ currentSort.column # DefaultSort.column
    /\ Len(filteredMetros) >= 2

====
